---- MODULE Spec2Model ----
(***************************************************************************)
(* The spatial linking engine of Globulator (globulator_linker.py):        *)
(* GlobulatorLinker.link_crescents_to_globules and calculate_statistics.   *)
(* With it: ParticleData.__init__ (globulator_core.py) and the batch loop  *)
(* GlobulatorPipeline.run_batch_analysis (globulator_main.py).             *)
(*                                                                         *)
(* Representation.                                                         *)
(*  - A ParticleData object is the record of its fields; its identity      *)
(*    (Python's id()) is its position in the input list it belongs to, so  *)
(*    two particles with equal fields are still two particles.             *)
(*  - A distance is carried as its square (calculate_distance takes the    *)
(*    square root of a sum of squares; the root is strictly increasing, so *)
(*    every comparison and the sort order are those of the squares).       *)
(*  - distance <= 3 * sqrt(area / pi) is decided as                        *)
(*    pi * distance^2 <= 9 * area, with pi = PiNum / PiDen = 355/113.      *)
(*    No fraction 9*area/distance^2 with distance^2 < 33000 lies between   *)
(*    pi and 355/113, so for the coordinates used here the comparison is   *)
(*    the one the double-precision code makes.                             *)
(*  - 0.25 * crescent_area is exact in binary floating point;              *)
(*    globule.area >= 0.25 * crescent_area is AreaRatioDen * g >= c.       *)
(*  - Statistics are exact rationals, kept as reduced fractions.           *)
(***************************************************************************)
EXTENDS Integers, Sequences, FiniteSets, TLC

\* The linker object: self.map_length, self.map_width.
VARIABLES map_length, map_width

\* One call of link_crescents_to_globules and the statistics of its result:
\* the arguments, the locals, the position in the code, the last statistics.
VARIABLES crescents, globules, image_width, image_height,
          spatial_map, linked_particles, ambiguous_particles, used_globules,
          ci, gi, pc, stats

\* One call of GlobulatorPipeline.run_batch_analysis: the directory, the
\* pairs found, the locals of the loop, the position, the value returned.
VARIABLES input_dir_exists, image_pairs, results, successful_count,
          failed_count, pair_i, batch_pc, batch_summary

\* A second call of link_crescents_to_globules on the same linker, suspended:
\* its frame, and which of the two calls is the running one.
VARIABLES other, running

linker == <<map_length, map_width>>

runs == <<other, running>>

batch == <<input_dir_exists, image_pairs, results, successful_count,
           failed_count, pair_i, batch_pc, batch_summary>>

frame == <<crescents, globules, image_width, image_height,
           spatial_map, linked_particles, ambiguous_particles, used_globules,
           ci, gi, pc, stats>>

vars == <<linker, frame, batch, runs>>

(***************************************************************************)
(* Bounds of the model and program constants.                              *)
(***************************************************************************)
MaxCrescents == 2
MaxGlobules == 2
MaxTotal == 4
MaxPairs == 2
MaxSearchRadius == 2

DefaultMapLength == 50
DefaultMapWidth == 50
DefaultSearchRadius == 1
RadiusMultiplier == 3
AreaRatioDen == 4
PiNum == 355
PiDen == 113

\* Optional[T]: None is the empty sequence, a value v is <<v>>.
None == <<>>
Some(v) == <<v>>

(***************************************************************************)
(* ParticleData.__init__: the arguments are stored as given, whatever      *)
(* their sign.  The circularity 4 * pi * area / perimeter^2 is kept as the *)
(* pair <<numerator, denominator>> of its multiple of pi.                  *)
(***************************************************************************)
ParticleData(area, x, y, perimeter) ==
    [area |-> area, x |-> x, y |-> y, perimeter |-> perimeter,
     circularity |-> IF perimeter > 0 THEN <<4 * area, perimeter * perimeter>>
                     ELSE <<0, 1>>]

(***************************************************************************)
(* Inputs.  P(area, x, y) is ParticleData(area, x, y), the perimeter       *)
(* being left to its default.                                              *)
(***************************************************************************)
DefaultPerimeter == 0

P(a, px, py) == ParticleData(a, px, py, DefaultPerimeter)

\* Crescents: a zero-area one (radius limit 0), a small one (limit 6.77,
\* area floor 4), and large ones (limit 107.05, area floor 1000) in cell 0,
\* in cell 1 and two cells left of the grid.
CrescentPool ==
    { P(0, 10, 10), P(16, 10, 10), P(4000, 10, 10),
      P(4000, 60, 10), P(4000, -60, 10) }

\* Globules: one at the small crescent's area floor (and far under the
\* large crescents'), ones at the large crescents' floor in cells 0, 1 and 2
\* and left of the image, and a larger one in the second row of cells.
GlobulePool ==
    { P(4, 10, 10), P(1000, 40, 10), P(1000, 80, 10),
      P(1000, 110, 10), P(1000, -20, 10), P(2000, 40, 70) }

ImageSizes == { <<0, 0>>, <<120, 60>> }

SeqsUpTo(S, n) == UNION { [1..k -> S] : k \in 0..n }

(***************************************************************************)
(* Helpers of the language.                                                *)
(***************************************************************************)
Max(a, b) == IF a >= b THEN a ELSE b
Min(a, b) == IF a <= b THEN a ELSE b

\* list[i] for a list of length n: negative indices count from the end.
PyIndexOK(i, n) == -n <= i /\ i < n
PyIndex(i, n) == IF i < 0 THEN i + n ELSE i

\* a // b, b # 0: the floor of the quotient, whatever the sign of b.
PyFloorDiv(a, b) == IF b > 0 THEN a \div b ELSE (0 - a) \div (0 - b)

\* len([... for _ in range(n)])
RangeLen(n) == Max(0, n)

(***************************************************************************)
(* calculate_distance, squared.                                            *)
(***************************************************************************)
calculate_distance(x1, y1, x2, y2) ==
    (x1 - x2) * (x1 - x2) + (y1 - y2) * (y1 - y2)

(***************************************************************************)
(* create_spatial_map                                                      *)
(***************************************************************************)
\* Variant: the quotient is rounded up (ceil(image_width / map_length) + 1).
map_x_size_ceil(w) == (0 - PyFloorDiv(0 - w, map_length)) + 1

map_x_size(w) == PyFloorDiv(w, map_length) + 1
map_y_size(h) == PyFloorDiv(h, map_width) + 1

\* Variant: the index is used as computed, without the clamp.
Unclamped(v, size) == v

\* max(0, min(map_x, map_x_size - 1))
ClampIndex(v, size) == Max(0, Min(v, size - 1))

\* Variant: x is divided by map_width and y by map_length, and the column
\* takes y's index.
GlobuleCellTransposed(g, nx, ny) ==
    <<ClampIndex(PyFloorDiv(g.y, map_length), nx),
      ClampIndex(PyFloorDiv(g.x, map_width), ny)>>

\* The cell a globule is appended to.
GlobuleCell(g, nx, ny) ==
    <<ClampIndex(PyFloorDiv(g.x, map_length), nx),
      ClampIndex(PyFloorDiv(g.y, map_width), ny)>>

\* spatial_map[map_x][map_y] raises IndexError outside the list.
PlacementRaises(gs, nx, ny) ==
    \E k \in 1..Len(gs) :
        \/ ~PyIndexOK(GlobuleCell(gs[k], nx, ny)[1], RangeLen(nx))
        \/ ~PyIndexOK(GlobuleCell(gs[k], nx, ny)[2], RangeLen(ny))

\* The ids of the globules of cell (cx, cy), in the order they were appended.
CellContents(gs, nx, ny, cx, cy) ==
    SelectSeq([k \in 1..Len(gs) |-> k],
              LAMBDA k :
                  /\ PyIndex(GlobuleCell(gs[k], nx, ny)[1], RangeLen(nx)) = cx
                  /\ PyIndex(GlobuleCell(gs[k], nx, ny)[2], RangeLen(ny)) = cy)

create_spatial_map(gs, w, h) ==
    LET nx == map_x_size(w)
        ny == map_y_size(h)
    IN  [cx \in 0..(nx - 1) |->
            [cy \in 0..(ny - 1) |-> CellContents(gs, nx, ny, cx, cy)]]

MapLenX(m) == Cardinality(DOMAIN m)
MapLenY(m) == Cardinality(DOMAIN m[0])

\* len(spatial_map[0]) raises IndexError on a grid without columns.
QueryRaises(m) == MapLenX(m) = 0

(***************************************************************************)
(* get_nearby_globules                                                     *)
(***************************************************************************)
\* One (distance, globule) tuple per globule of cell (cx, cy), in cell order.
CellTuples(c, gs, m, cx, cy) ==
    [k \in 1..Len(m[cx][cy]) |->
        [distance |-> calculate_distance(c.x, c.y,
                                         gs[m[cx][cy][k]].x, gs[m[cx][cy][k]].y),
         globule |-> m[cx][cy][k]]]

\* Variant: the last row is left out (range(min_y, max_y)).
RECURSIVE ScanRowsExclusive(_, _, _, _, _, _)
ScanRowsExclusive(c, gs, m, cx, y, max_y) ==
    IF y >= max_y THEN <<>>
    ELSE CellTuples(c, gs, m, cx, y)
             \o ScanRowsExclusive(c, gs, m, cx, y + 1, max_y)

\* for y in range(y, max_y + 1)
RECURSIVE ScanRows(_, _, _, _, _, _)
ScanRows(c, gs, m, cx, y, max_y) ==
    IF y > max_y THEN <<>>
    ELSE CellTuples(c, gs, m, cx, y) \o ScanRows(c, gs, m, cx, y + 1, max_y)

\* for x in range(x, max_x + 1)
RECURSIVE ScanCells(_, _, _, _, _, _, _)
ScanCells(c, gs, m, x, max_x, min_y, max_y) ==
    IF x > max_x THEN <<>>
    ELSE ScanRows(c, gs, m, x, min_y, max_y)
             \o ScanCells(c, gs, m, x + 1, max_x, min_y, max_y)

\* list.sort(key = distance): stable, ascending.
InsertByDistance(e, s) ==
    LET after == { k \in 1..Len(s) : s[k].distance > e.distance }
        pos == IF after = {} THEN Len(s) + 1
               ELSE CHOOSE k \in after : \A j \in after : k <= j
    IN  SubSeq(s, 1, pos - 1) \o <<e>> \o SubSeq(s, pos, Len(s))

RECURSIVE SortByDistance(_)
SortByDistance(s) ==
    IF s = <<>> THEN <<>>
    ELSE InsertByDistance(s[Len(s)], SortByDistance(SubSeq(s, 1, Len(s) - 1)))

\* Variant: only the query point's own cell is read.
get_own_cell_globules(c, gs, m, search_radius) ==
    LET map_x == PyFloorDiv(c.x, map_length)
        map_y == PyFloorDiv(c.y, map_width)
    IN  SortByDistance(ScanCells(c, gs, m,
                                 Max(0, map_x), Min(MapLenX(m) - 1, map_x),
                                 Max(0, map_y), Min(MapLenY(m) - 1, map_y)))

\* The cell of the query point: not clamped.
\* Variant: the crescent's cell is clamped into the grid as a globule's is.
QueryCellClamped(c) ==
    <<Max(0, Min(PyFloorDiv(c.x, map_length), MapLenX(spatial_map) - 1)),
      Max(0, Min(PyFloorDiv(c.y, map_width), MapLenY(spatial_map) - 1))>>

QueryCell(c) == <<PyFloorDiv(c.x, map_length), PyFloorDiv(c.y, map_width)>>

get_nearby_globules(c, gs, m, search_radius) ==
    LET map_x == QueryCell(c)[1]
        map_y == QueryCell(c)[2]
        min_x == Max(0, map_x - search_radius)
        max_x == Min(MapLenX(m) - 1, map_x + search_radius)
        min_y == Max(0, map_y - search_radius)
        max_y == Min(MapLenY(m) - 1, map_y + search_radius)
    IN  SortByDistance(ScanCells(c, gs, m, min_x, max_x, min_y, max_y))

(***************************************************************************)
(* find_best_globule_for_crescent                                          *)
(***************************************************************************)
\* Variant: the area, not the radius, is multiplied (distance <= area * 3).
WithinThreeAreas(distance2, crescent_area) ==
    distance2 <= RadiusMultiplier * RadiusMultiplier * crescent_area * crescent_area

\* distance <= calculate_radius(crescent_area) * 3
WithinRadiusLimit(distance2, crescent_area) ==
    PiNum * distance2 <= RadiusMultiplier * RadiusMultiplier * crescent_area * PiDen

\* Variant: the operands are exchanged (crescent_area >= 0.25 * globule.area).
MeetsAreaFloorSwapped(globule_area, crescent_area) ==
    AreaRatioDen * crescent_area >= globule_area

\* Variant: strictly above the floor (globule.area > 0.25 * crescent_area).
MeetsAreaFloorStrict(globule_area, crescent_area) ==
    AreaRatioDen * globule_area > crescent_area

\* globule.area >= 0.25 * crescent_area
MeetsAreaFloor(globule_area, crescent_area) ==
    AreaRatioDen * globule_area >= crescent_area

\* Variant: the nearest valid globule (valid_globules[0]).
NearestValid(gs, s) == s[1]

\* Variant: the last of the largest, as a scan with ">=" returns.
MaxByAreaLast(gs, s) ==
    s[CHOOSE k \in 1..Len(s) :
        /\ \A j \in 1..Len(s) : gs[s[j].globule].area <= gs[s[k].globule].area
        /\ \A j \in (k + 1)..Len(s) :
               gs[s[j].globule].area < gs[s[k].globule].area]

\* max(valid_globules, key = area): the first of the largest.
MaxByArea(gs, s) ==
    s[CHOOSE k \in 1..Len(s) :
        /\ \A j \in 1..Len(s) : gs[s[j].globule].area <= gs[s[k].globule].area
        /\ \A j \in 1..(k - 1) : gs[s[j].globule].area < gs[s[k].globule].area]

\* calculate_radius(crescent_area): math.sqrt raises ValueError below 0.  It
\* is reached when there is a candidate to test.
MatcherRaises(c, nearby_globules) == nearby_globules # <<>> /\ c.area < 0

find_best_globule_for_crescent(c, gs, nearby_globules) ==
    IF nearby_globules = <<>> THEN None
    ELSE LET candidate_globules ==
                 SelectSeq(nearby_globules,
                           LAMBDA e : WithinRadiusLimit(e.distance, c.area))
         IN  IF candidate_globules = <<>> THEN None
             ELSE LET valid_globules ==
                          SelectSeq(candidate_globules,
                                    LAMBDA e : MeetsAreaFloor(gs[e.globule].area, c.area))
                  IN  IF valid_globules = <<>> THEN None
                      ELSE Some(MaxByArea(gs, valid_globules))

(***************************************************************************)
(* calculate_statistics                                                    *)
(***************************************************************************)
RECURSIVE Gcd(_, _)
Gcd(a, b) == IF b = 0 THEN a ELSE Gcd(b, a % b)

\* The rational n / d, d > 0, in lowest terms.
Frac(n, d) == LET g == Gcd(n, d) IN [num |-> n \div g, den |-> d \div g]
FracTimes(f, k) == IF f.den = 0 THEN f ELSE Frac(f.num * k, f.den)
Zero == [num |-> 0, den |-> 1]

\* n / d of two ints: a float, or ZeroDivisionError, which is written as the
\* fraction with denominator 0 and absorbs what is computed from it.
ZeroDivisionError == [num |-> 0, den |-> 0]
PyDiv(n, d) == IF d = 0 THEN ZeroDivisionError ELSE Frac(n, d)

RECURSIVE SumCrescentArea(_, _)
SumCrescentArea(cs, lps) ==
    IF lps = <<>> THEN 0
    ELSE cs[Head(lps).crescent].area + SumCrescentArea(cs, Tail(lps))

RECURSIVE SumGlobuleArea(_, _)
SumGlobuleArea(gs, lps) ==
    IF lps = <<>> THEN 0
    ELSE gs[Head(lps).globule].area + SumGlobuleArea(gs, Tail(lps))

\* Variant: the fraction is not scaled to a percentage.
FractionOf(linked_count, total_globules) == PyDiv(linked_count, total_globules)

\* (linked_count / total_globules) * 100
PercentOf(linked_count, total_globules) ==
    FracTimes(PyDiv(linked_count, total_globules), 100)

calculate_statistics(cs, gs, lps, total_globules, total_crescents) ==
    IF total_globules = 0
    THEN [total_globules |-> 0,
          total_crescents |-> total_crescents,
          linked_pairs |-> 0,
          globule_with_crescent_percent |-> Zero,
          average_crescent_area |-> Zero,
          average_globule_area |-> Zero]
    ELSE LET linked_count == Len(lps)
         IN  [total_globules |-> total_globules,
              total_crescents |-> total_crescents,
              linked_pairs |-> linked_count,
              globule_with_crescent_percent |->
                  PercentOf(linked_count, total_globules),
              average_crescent_area |->
                  IF linked_count > 0
                  THEN PyDiv(SumCrescentArea(cs, lps), linked_count) ELSE Zero,
              average_globule_area |->
                  IF linked_count > 0
                  THEN PyDiv(SumGlobuleArea(gs, lps), linked_count) ELSE Zero]

(***************************************************************************)
(* The run: link_crescents_to_globules, then calculate_statistics.         *)
(***************************************************************************)
\* No second call is there.
Alone == other = None /\ running = 1

\* No batch is running.
BatchIdle ==
    /\ input_dir_exists = TRUE
    /\ image_pairs = <<>>
    /\ results = <<>>
    /\ successful_count = 0
    /\ failed_count = 0
    /\ pair_i = 1
    /\ batch_pc = "idle"
    /\ batch_summary = None

Init ==
    /\ map_length = DefaultMapLength
    /\ map_width = DefaultMapWidth
    /\ crescents \in SeqsUpTo(CrescentPool, MaxCrescents)
    /\ globules \in SeqsUpTo(GlobulePool, MaxGlobules)
    /\ \E sz \in ImageSizes : image_width = sz[1] /\ image_height = sz[2]
    /\ spatial_map = None
    /\ linked_particles = <<>>
    /\ ambiguous_particles = <<>>
    /\ used_globules = {}
    /\ ci = 1
    /\ gi = 1
    /\ pc = "call"
    /\ stats = None
    /\ BatchIdle
    /\ Alone

\* image_width // self.map_length and image_height // self.map_width raise
\* ZeroDivisionError on a cell size of 0.
DimensionsRaise == map_length = 0 \/ map_width = 0

\* Variant: the grid is built after the globules left of the image are moved
\* onto its border (globule.x = max(0, globule.x)).
StartLinkMovingGlobules ==
    /\ pc = "call"
    /\ IF \/ DimensionsRaise
          \/ PlacementRaises(globules, map_x_size(image_width),
                             map_y_size(image_height))
       THEN /\ pc' = "error"
            /\ UNCHANGED <<spatial_map, globules>>
       ELSE /\ pc' = "crescents"
            /\ globules' = [g \in DOMAIN globules |->
                               [globules[g] EXCEPT !.x = Max(0, @)]]
            /\ spatial_map' = create_spatial_map(globules', image_width,
                                                 image_height)
    /\ linked_particles' = <<>>
    /\ ambiguous_particles' = <<>>
    /\ used_globules' = {}
    /\ UNCHANGED <<linker, batch, runs, crescents, image_width,
                   image_height, ci, gi, stats>>

\* link_crescents_to_globules, lines 160-164.
StartLink ==
    /\ pc = "call"
    /\ IF \/ DimensionsRaise
          \/ PlacementRaises(globules, map_x_size(image_width),
                             map_y_size(image_height))
       THEN /\ pc' = "error"
            /\ UNCHANGED spatial_map
       ELSE /\ pc' = "crescents"
            /\ spatial_map' = create_spatial_map(globules, image_width, image_height)
    /\ linked_particles' = <<>>
    /\ ambiguous_particles' = <<>>
    /\ used_globules' = {}
    /\ UNCHANGED <<linker, batch, runs, crescents, globules, image_width,
                   image_height, ci, gi, stats>>

\* Variant: the used globules are not filtered out.
NearbyUnfiltered(k) ==
    get_nearby_globules(crescents[k], globules, spatial_map, DefaultSearchRadius)

\* Variant: a globule that is the nearest candidate of a later crescent is
\* kept for that crescent.
AvailableGlobulesReserving(k) ==
    SelectSeq(get_nearby_globules(crescents[k], globules, spatial_map,
                                  DefaultSearchRadius),
              LAMBDA e :
                  /\ e.globule \notin used_globules
                  /\ \A j \in (k + 1)..Len(crescents) :
                         LET later == get_nearby_globules(crescents[j], globules,
                                                          spatial_map,
                                                          DefaultSearchRadius)
                         IN  later = <<>> \/ later[1].globule # e.globule)

\* The candidates offered to the matcher for crescent k: lines 169-173.
AvailableGlobules(k) ==
    SelectSeq(get_nearby_globules(crescents[k], globules, spatial_map,
                                  DefaultSearchRadius),
              LAMBDA e : e.globule \notin used_globules)

\* Variant: the globule is not recorded as used.
AddUsedNever(used, glob) == used

\* Variant: the set is replaced by the new globule (used_globules = {id}).
AddUsedReplace(used, glob) == {glob}

\* Variant: every globule up to the linked one, in input order, is marked.
AddUsedUpTo(used, glob) == used \cup (1..glob)

\* used_globules.add(id(globule))
AddUsed(used, glob) == used \cup {glob}

\* Variant: the entries are put at the front of the lists (insert(0, ...)).
LinkCrescentPrepend ==
    /\ pc = "crescents"
    /\ ci <= Len(crescents)
    /\ IF \/ QueryRaises(spatial_map)
          \/ MatcherRaises(crescents[ci], AvailableGlobules(ci))
       THEN /\ pc' = "error"
            /\ UNCHANGED <<linked_particles, ambiguous_particles,
                           used_globules, ci>>
       ELSE /\ LET best_match ==
                       find_best_globule_for_crescent(crescents[ci], globules,
                                                      AvailableGlobules(ci))
               IN  IF best_match # None
                   THEN /\ linked_particles' =
                               <<[crescent |-> ci,
                                  globule |-> best_match[1].globule,
                                  distance |-> best_match[1].distance]>>
                                   \o linked_particles
                        /\ used_globules' =
                               AddUsed(used_globules, best_match[1].globule)
                        /\ UNCHANGED ambiguous_particles
                   ELSE /\ ambiguous_particles' =
                               <<[particle |-> ci, type |-> "crescent"]>>
                                   \o ambiguous_particles
                        /\ UNCHANGED <<linked_particles, used_globules>>
            /\ ci' = ci + 1
            /\ UNCHANGED pc
    /\ UNCHANGED <<linker, batch, runs, crescents, globules, image_width,
                   image_height,
                   spatial_map, gi, stats>>

\* One iteration of "for crescent in crescents", lines 167-184.
LinkCrescent ==
    /\ pc = "crescents"
    /\ ci <= Len(crescents)
    /\ IF \/ QueryRaises(spatial_map)
          \/ MatcherRaises(crescents[ci], AvailableGlobules(ci))
       THEN /\ pc' = "error"
            /\ UNCHANGED <<linked_particles, ambiguous_particles,
                           used_globules, ci>>
       ELSE /\ LET best_match ==
                       find_best_globule_for_crescent(crescents[ci], globules,
                                                      AvailableGlobules(ci))
               IN  IF best_match # None
                   THEN /\ linked_particles' =
                               Append(linked_particles,
                                      [crescent |-> ci,
                                       globule |-> best_match[1].globule,
                                       distance |-> best_match[1].distance])
                        /\ used_globules' =
                               AddUsed(used_globules, best_match[1].globule)
                        /\ UNCHANGED ambiguous_particles
                   ELSE /\ ambiguous_particles' =
                               Append(ambiguous_particles,
                                      [particle |-> ci, type |-> "crescent"])
                        /\ UNCHANGED <<linked_particles, used_globules>>
            /\ ci' = ci + 1
            /\ UNCHANGED pc
    /\ UNCHANGED <<linker, batch, runs, crescents, globules, image_width,
                   image_height,
                   spatial_map, gi, stats>>

\* Variant: an early return of ([], []) when there are no crescents.
EndCrescentsEarlyReturn ==
    /\ pc = "crescents"
    /\ ci > Len(crescents)
    /\ pc' = IF crescents = <<>> THEN "done" ELSE "globules"
    /\ UNCHANGED <<linker, batch, runs, crescents, globules, image_width,
                   image_height, spatial_map,
                   linked_particles, ambiguous_particles, used_globules,
                   ci, gi, stats>>

\* The crescent loop is exhausted.
EndCrescents ==
    /\ pc = "crescents"
    /\ ci > Len(crescents)
    /\ pc' = "globules"
    /\ UNCHANGED <<linker, batch, runs, crescents, globules, image_width,
                   image_height, spatial_map,
                   linked_particles, ambiguous_particles, used_globules,
                   ci, gi, stats>>

\* Variant: every globule is appended, used or not.
MarkGlobuleEvery ==
    /\ pc = "globules"
    /\ gi <= Len(globules)
    /\ ambiguous_particles' =
           Append(ambiguous_particles, [particle |-> gi, type |-> "globule"])
    /\ gi' = gi + 1
    /\ UNCHANGED <<linker, batch, runs, crescents, globules, image_width,
                   image_height, spatial_map,
                   linked_particles, used_globules, ci, pc, stats>>

\* Variant: the globule entry is put at the front of the list (insert(0, ...)).
MarkGlobulePrepend ==
    /\ pc = "globules"
    /\ gi <= Len(globules)
    /\ ambiguous_particles' =
           IF gi \notin used_globules
           THEN <<[particle |-> gi, type |-> "globule"]>> \o ambiguous_particles
           ELSE ambiguous_particles
    /\ gi' = gi + 1
    /\ UNCHANGED <<linker, batch, runs, crescents, globules, image_width,
                   image_height, spatial_map,
                   linked_particles, used_globules, ci, pc, stats>>

\* One iteration of "for globule in globules", lines 187-189.
MarkGlobule ==
    /\ pc = "globules"
    /\ gi <= Len(globules)
    /\ ambiguous_particles' =
           IF gi \notin used_globules
           THEN Append(ambiguous_particles, [particle |-> gi, type |-> "globule"])
           ELSE ambiguous_particles
    /\ gi' = gi + 1
    /\ UNCHANGED <<linker, batch, runs, crescents, globules, image_width,
                   image_height, spatial_map,
                   linked_particles, used_globules, ci, pc, stats>>

\* return linked_particles, ambiguous_particles
ReturnLink ==
    /\ pc = "globules"
    /\ gi > Len(globules)
    /\ pc' = "done"
    /\ UNCHANGED <<linker, batch, runs, crescents, globules, image_width,
                   image_height, spatial_map,
                   linked_particles, ambiguous_particles, used_globules,
                   ci, gi, stats>>

\* The (total_globules, total_crescents) arguments: the numbers of globules
\* and crescents, as the pipeline passes them, and other totals: no globules,
\* more globules than the lists hold, no crescents.
TotalArgs ==
    { <<Len(globules), Len(crescents)>>, <<0, Len(crescents)>>,
      <<MaxTotal, Len(crescents)>>, <<Len(globules), 0>> }

\* Variant: the pairs are taken off the list as they are summed.
SummarizeConsuming ==
    /\ pc = "done"
    /\ \E args \in TotalArgs :
           stats' = Some(calculate_statistics(crescents, globules,
                                              linked_particles, args[1], args[2]))
    /\ linked_particles' = <<>>
    /\ UNCHANGED <<linker, batch, runs, crescents, globules, image_width,
                   image_height, spatial_map, ambiguous_particles,
                   used_globules, ci, gi, pc>>

\* calculate_statistics(linked_particles, total_globules, total_crescents)
\* on the returned pairs.
Summarize ==
    /\ pc = "done"
    /\ \E args \in TotalArgs :
           stats' = Some(calculate_statistics(crescents, globules,
                                              linked_particles, args[1], args[2]))
    /\ UNCHANGED <<linker, batch, runs, crescents, globules, image_width,
                   image_height, spatial_map,
                   linked_particles, ambiguous_particles, used_globules,
                   ci, gi, pc>>

Next ==
    \/ StartLink
    \/ LinkCrescent
    \/ EndCrescents
    \/ MarkGlobule
    \/ ReturnLink
    \/ Summarize

Spec == Init /\ [][Next]_vars

(***************************************************************************)
(* Runs on particles as any caller can construct them: ParticleData and    *)
(* link_crescents_to_globules take a negative area or perimeter as given.  *)
(***************************************************************************)
\* A well-formed crescent, one of negative area, one of negative perimeter.
AnyCrescentPool ==
    { P(16, 10, 10), ParticleData(-16, 10, 10, DefaultPerimeter),
      ParticleData(16, 10, 10, -1) }

\* A well-formed globule, one of negative area, one of negative perimeter.
AnyGlobulePool ==
    { P(4, 10, 10), ParticleData(-4, 10, 10, DefaultPerimeter),
      ParticleData(4, 10, 10, -1) }

AnyParticlesInit ==
    /\ map_length = DefaultMapLength
    /\ map_width = DefaultMapWidth
    /\ crescents \in SeqsUpTo(AnyCrescentPool, MaxCrescents)
    /\ globules \in SeqsUpTo(AnyGlobulePool, MaxGlobules)
    /\ \E sz \in ImageSizes : image_width = sz[1] /\ image_height = sz[2]
    /\ spatial_map = None
    /\ linked_particles = <<>>
    /\ ambiguous_particles = <<>>
    /\ used_globules = {}
    /\ ci = 1
    /\ gi = 1
    /\ pc = "call"
    /\ stats = None
    /\ BatchIdle
    /\ Alone

AnyParticlesSpec == AnyParticlesInit /\ [][Next]_vars

(***************************************************************************)
(* Runs on particles outside the image, on each of its four sides: the     *)
(* detector's coordinates are not checked against the image size.          *)
(***************************************************************************)
OffGridCrescentPool ==
    { P(4000, 10, 10), P(4000, -60, 10), P(4000, 200, 10),
      P(4000, 10, -60), P(4000, 10, 150) }

OffGridGlobulePool ==
    { P(1000, -20, 10), P(1000, 130, 10), P(1000, 10, -20), P(1000, 10, 100) }

OffGridInit ==
    /\ map_length = DefaultMapLength
    /\ map_width = DefaultMapWidth
    /\ crescents \in SeqsUpTo(OffGridCrescentPool, MaxCrescents)
    /\ globules \in SeqsUpTo(OffGridGlobulePool, MaxGlobules)
    /\ \E sz \in ImageSizes : image_width = sz[1] /\ image_height = sz[2]
    /\ spatial_map = None
    /\ linked_particles = <<>>
    /\ ambiguous_particles = <<>>
    /\ used_globules = {}
    /\ ci = 1
    /\ gi = 1
    /\ pc = "call"
    /\ stats = None
    /\ BatchIdle
    /\ Alone

OffGridSpec == OffGridInit /\ [][Next]_vars

(***************************************************************************)
(* Runs of a linker constructed with any cell size:                        *)
(* GlobulatorLinker(map_length, map_width) stores its arguments as given.  *)
(***************************************************************************)
CellSizes == { -50, 0, 50 }

ConfigCrescentPool == { P(4000, 10, 10), P(4000, 60, 10) }
ConfigGlobulePool == { P(1000, 40, 10), P(1000, 80, 10) }

AnyConfigInit ==
    /\ map_length \in CellSizes
    /\ map_width \in CellSizes
    /\ crescents \in SeqsUpTo(ConfigCrescentPool, MaxCrescents)
    /\ globules \in SeqsUpTo(ConfigGlobulePool, MaxGlobules)
    /\ \E sz \in ImageSizes : image_width = sz[1] /\ image_height = sz[2]
    /\ spatial_map = None
    /\ linked_particles = <<>>
    /\ ambiguous_particles = <<>>
    /\ used_globules = {}
    /\ ci = 1
    /\ gi = 1
    /\ pc = "call"
    /\ stats = None
    /\ BatchIdle
    /\ Alone

AnyConfigSpec == AnyConfigInit /\ [][Next]_vars

(***************************************************************************)
(* The batch: GlobulatorPipeline.run_batch_analysis and                    *)
(* process_single_pair (globulator_main.py).  A pair is known by its       *)
(* position in the list find_image_pairs returns; what is modelled of its  *)
(* images is the step of process_single_pair at which processing them     *)
(* raises, or "ok" when none does.                                         *)
(***************************************************************************)
\* The calls inside the try block of process_single_pair, lines 142-188.
RaisingSteps ==
    { "dimensions", "globules", "crescents", "contamination", "link",
      "statistics", "save", "visualize" }

PairFates == {"ok"} \cup RaisingSteps

\* process_single_pair: the returned summary, from the try block or from the
\* except block of lines 204-214.
process_single_pair(k, fate) ==
    IF fate = "ok"
    THEN [filename |-> k, success |-> TRUE, error |-> "none"]
    ELSE [filename |-> k, success |-> FALSE, error |-> fate]

BatchInit ==
    /\ map_length = DefaultMapLength
    /\ map_width = DefaultMapWidth
    /\ crescents = <<>>
    /\ globules = <<>>
    /\ image_width = 0
    /\ image_height = 0
    /\ spatial_map = None
    /\ linked_particles = <<>>
    /\ ambiguous_particles = <<>>
    /\ used_globules = {}
    /\ ci = 1
    /\ gi = 1
    /\ pc = "call"
    /\ stats = None
    /\ input_dir_exists \in BOOLEAN
    /\ image_pairs \in IF input_dir_exists THEN SeqsUpTo(PairFates, MaxPairs)
                       ELSE {<<>>}
    /\ results = <<>>
    /\ successful_count = 0
    /\ failed_count = 0
    /\ pair_i = 1
    /\ batch_pc = "find"
    /\ batch_summary = None
    /\ Alone

\* Lines 225-239: find_image_pairs raises (no input directory) or returns no
\* pair, and the batch returns a failure; or the loop is entered.
FindPairs ==
    /\ batch_pc = "find"
    /\ IF ~input_dir_exists
       THEN /\ batch_summary' = Some([success |-> FALSE, error |-> "find"])
            /\ batch_pc' = "returned"
       ELSE IF image_pairs = <<>>
       THEN /\ batch_summary' = Some([success |-> FALSE, error |-> "no pairs"])
            /\ batch_pc' = "returned"
       ELSE /\ batch_pc' = "pairs"
            /\ UNCHANGED batch_summary
    /\ results' = <<>>
    /\ successful_count' = 0
    /\ failed_count' = 0
    /\ UNCHANGED <<linker, frame, runs, input_dir_exists, image_pairs, pair_i>>

\* Variant: process_single_pair without its except block; the exception
\* leaves run_batch_analysis.
ProcessPairUncaught ==
    /\ batch_pc = "pairs"
    /\ pair_i <= Len(image_pairs)
    /\ IF image_pairs[pair_i] = "ok"
       THEN /\ results' = Append(results, process_single_pair(pair_i, "ok"))
            /\ successful_count' = successful_count + 1
            /\ pair_i' = pair_i + 1
            /\ UNCHANGED batch_pc
       ELSE /\ batch_pc' = "raised"
            /\ UNCHANGED <<results, successful_count, pair_i>>
    /\ UNCHANGED <<linker, frame, runs, input_dir_exists, image_pairs,
                   failed_count,
                   batch_summary>>

\* Variant: the loop has no else branch; a failed pair is not counted.
ProcessPairFailedUncounted ==
    /\ batch_pc = "pairs"
    /\ pair_i <= Len(image_pairs)
    /\ LET result == process_single_pair(pair_i, image_pairs[pair_i])
       IN  /\ results' = Append(results, result)
           /\ successful_count' =
                  IF result.success THEN successful_count + 1
                  ELSE successful_count
    /\ pair_i' = pair_i + 1
    /\ UNCHANGED <<linker, frame, runs, input_dir_exists, image_pairs, batch_pc,
                   failed_count, batch_summary>>

\* One iteration of "for i, (dic_image, rg_image) in enumerate(image_pairs, 1)",
\* lines 241-250.
ProcessPair ==
    /\ batch_pc = "pairs"
    /\ pair_i <= Len(image_pairs)
    /\ LET result == process_single_pair(pair_i, image_pairs[pair_i])
       IN  /\ results' = Append(results, result)
           /\ IF result.success
              THEN /\ successful_count' = successful_count + 1
                   /\ UNCHANGED failed_count
              ELSE /\ failed_count' = failed_count + 1
                   /\ UNCHANGED successful_count
    /\ pair_i' = pair_i + 1
    /\ UNCHANGED <<linker, frame, runs, input_dir_exists, image_pairs, batch_pc,
                   batch_summary>>

\* Lines 252-307: the summary report (its failure is a warning only), the
\* batch summary, and its file, whose writing is outside any try block.
FinishBatch ==
    /\ batch_pc = "pairs"
    /\ pair_i > Len(image_pairs)
    /\ \E summary_file_written \in BOOLEAN :
           IF summary_file_written
           THEN /\ batch_summary' =
                       Some([success |-> TRUE,
                             total_pairs |-> Len(image_pairs),
                             successful |-> successful_count,
                             failed |-> failed_count,
                             results |-> results])
                /\ batch_pc' = "returned"
           ELSE /\ batch_pc' = "raised"
                /\ UNCHANGED batch_summary
    /\ UNCHANGED <<linker, frame, runs, input_dir_exists, image_pairs, results,
                   successful_count, failed_count, pair_i>>

BatchNext ==
    \/ FindPairs
    \/ ProcessPair
    \/ FinishBatch

BatchSpec == BatchInit /\ [][BatchNext]_vars

(***************************************************************************)
(* Two calls of link_crescents_to_globules on one GlobulatorLinker, their  *)
(* steps interleaved.  The parameters and locals of a call (lines 152-164) *)
(* belong to the call; the linker object is the same for both.  The        *)
(* running call's frame is in the variables, the suspended call's in       *)
(* other.                                                                  *)
(***************************************************************************)
\* link_crescents_to_globules run to its return, as one function.
RECURSIVE LinkAloneLoop(_, _, _, _, _, _, _)
LinkAloneLoop(cs, gs, m, k, lps, amb, used) ==
    IF k > Len(cs) THEN [linked_particles |-> lps, ambiguous_particles |-> amb,
                         used_globules |-> used]
    ELSE LET available ==
                 SelectSeq(get_nearby_globules(cs[k], gs, m, DefaultSearchRadius),
                           LAMBDA e : e.globule \notin used)
             best_match == find_best_globule_for_crescent(cs[k], gs, available)
         IN  IF best_match # None
             THEN LinkAloneLoop(cs, gs, m, k + 1,
                                Append(lps, [crescent |-> k,
                                             globule |-> best_match[1].globule,
                                             distance |-> best_match[1].distance]),
                                amb, used \cup {best_match[1].globule})
             ELSE LinkAloneLoop(cs, gs, m, k + 1, lps,
                                Append(amb, [particle |-> k, type |-> "crescent"]),
                                used)

LinkAlone(cs, gs, w, h) ==
    LET r == LinkAloneLoop(cs, gs, create_spatial_map(gs, w, h), 1, <<>>, <<>>, {})
        unused == SelectSeq([g \in 1..Len(gs) |-> g],
                            LAMBDA g : g \notin r.used_globules)
    IN  [linked_particles |-> r.linked_particles,
         ambiguous_particles |->
             r.ambiguous_particles
                 \o [n \in 1..Len(unused) |-> [particle |-> unused[n], type |-> "globule"]]]

\* The two calls' particles, and their images: one call has a grid of 3 x 2
\* cells, the other a grid of one cell.
SharedCrescentPool == { P(4000, 10, 10) }
SharedGlobulePool == { P(1000, 40, 10), P(2000, 40, 70) }
FirstImage == <<120, 60>>
SecondImage == <<0, 0>>

\* The frame of a call that has not started.
CallFrame(cs, gs, sz) ==
    [crescents |-> cs, globules |-> gs,
     image_width |-> sz[1], image_height |-> sz[2],
     spatial_map |-> None, linked_particles |-> <<>>,
     ambiguous_particles |-> <<>>, used_globules |-> {},
     ci |-> 1, gi |-> 1, pc |-> "call", stats |-> None]

\* The frame of the running call.
RunningFrame ==
    [crescents |-> crescents, globules |-> globules,
     image_width |-> image_width, image_height |-> image_height,
     spatial_map |-> spatial_map, linked_particles |-> linked_particles,
     ambiguous_particles |-> ambiguous_particles,
     used_globules |-> used_globules,
     ci |-> ci, gi |-> gi, pc |-> pc, stats |-> stats]

TwoRunsInit ==
    /\ map_length = DefaultMapLength
    /\ map_width = DefaultMapWidth
    /\ crescents \in SeqsUpTo(SharedCrescentPool, MaxCrescents)
    /\ globules \in SeqsUpTo(SharedGlobulePool, MaxGlobules)
    /\ image_width = FirstImage[1]
    /\ image_height = FirstImage[2]
    /\ spatial_map = None
    /\ linked_particles = <<>>
    /\ ambiguous_particles = <<>>
    /\ used_globules = {}
    /\ ci = 1
    /\ gi = 1
    /\ pc = "call"
    /\ stats = None
    /\ BatchIdle
    /\ \E cs \in SeqsUpTo(SharedCrescentPool, MaxCrescents) :
       \E gs \in SeqsUpTo(SharedGlobulePool, MaxGlobules) :
           other = Some(CallFrame(cs, gs, SecondImage))
    /\ running = 1

\* Variant: used_globules is one set of the linker object, not a local of
\* the call.
SwitchSharedUsed ==
    /\ other # None
    /\ other' = Some(RunningFrame)
    /\ crescents' = other[1].crescents
    /\ globules' = other[1].globules
    /\ image_width' = other[1].image_width
    /\ image_height' = other[1].image_height
    /\ spatial_map' = other[1].spatial_map
    /\ linked_particles' = other[1].linked_particles
    /\ ambiguous_particles' = other[1].ambiguous_particles
    /\ ci' = other[1].ci
    /\ gi' = other[1].gi
    /\ pc' = other[1].pc
    /\ stats' = other[1].stats
    /\ running' = 3 - running
    /\ UNCHANGED <<linker, batch, used_globules>>

\* The running call is suspended and the other one resumed.
Switch ==
    /\ other # None
    /\ other' = Some(RunningFrame)
    /\ crescents' = other[1].crescents
    /\ globules' = other[1].globules
    /\ image_width' = other[1].image_width
    /\ image_height' = other[1].image_height
    /\ spatial_map' = other[1].spatial_map
    /\ linked_particles' = other[1].linked_particles
    /\ ambiguous_particles' = other[1].ambiguous_particles
    /\ used_globules' = other[1].used_globules
    /\ ci' = other[1].ci
    /\ gi' = other[1].gi
    /\ pc' = other[1].pc
    /\ stats' = other[1].stats
    /\ running' = 3 - running
    /\ UNCHANGED <<linker, batch>>

TwoRunsNext ==
    \/ StartLink
    \/ LinkCrescent
    \/ EndCrescents
    \/ MarkGlobule
    \/ ReturnLink
    \/ Switch

TwoRunsSpec == TwoRunsInit /\ [][TwoRunsNext]_vars

(***************************************************************************)
(* The brute-force variant of the linking loop that the grid is compared   *)
(* with: every globule, in input order, is offered with its distance,      *)
(* sorted by distance as get_nearby_globules sorts, to the same matcher.   *)
(***************************************************************************)
BruteForceNearby(c, gs) ==
    SortByDistance([g \in 1..Len(gs) |->
                       [distance |-> calculate_distance(c.x, c.y, gs[g].x, gs[g].y),
                        globule |-> g]])

RECURSIVE BruteForceLoop(_, _, _, _, _, _)
BruteForceLoop(cs, gs, k, lps, amb, used) ==
    IF k > Len(cs) THEN [linked_particles |-> lps, ambiguous_particles |-> amb,
                         used_globules |-> used]
    ELSE LET available == SelectSeq(BruteForceNearby(cs[k], gs),
                                    LAMBDA e : e.globule \notin used)
             best_match == find_best_globule_for_crescent(cs[k], gs, available)
         IN  IF best_match # None
             THEN BruteForceLoop(cs, gs, k + 1,
                                 Append(lps, [crescent |-> k,
                                              globule |-> best_match[1].globule,
                                              distance |-> best_match[1].distance]),
                                 amb, used \cup {best_match[1].globule})
             ELSE BruteForceLoop(cs, gs, k + 1, lps,
                                 Append(amb, [particle |-> k, type |-> "crescent"]),
                                 used)

BruteForceLink(cs, gs) ==
    LET r == BruteForceLoop(cs, gs, 1, <<>>, <<>>, {})
        unused == SelectSeq([g \in 1..Len(gs) |-> g],
                            LAMBDA g : g \notin r.used_globules)
    IN  [linked_particles |-> r.linked_particles,
         ambiguous_particles |->
             r.ambiguous_particles
                 \o [n \in 1..Len(unused) |-> [particle |-> unused[n], type |-> "globule"]]]

(***************************************************************************)
(* Vocabulary of the properties, written from the particles' fields and    *)
(* not through the operators of the run.                                   *)
(***************************************************************************)
Returned == pc = "done"

PairCount == Len(linked_particles)
AmbiguousOf(t) == SelectSeq(ambiguous_particles, LAMBDA a : a.type = t)

\* Squared centroid distance of crescent c and globule g.
DistSq(c, g) == (c.x - g.x) * (c.x - g.x) + (c.y - g.y) * (c.y - g.y)

\* distance <= 3 * sqrt(c.area / pi), and the same with equality.
InRadius(c, g) == 355 * DistSq(c, g) <= 9 * c.area * 113
OnRadius(c, g) == 355 * DistSq(c, g) = 9 * c.area * 113

\* g.area >= 0.25 * c.area, and the same with equality.
AboveFloor(c, g) == 4 * g.area >= c.area
OnFloor(c, g) == 4 * g.area = c.area

\* The cell a globule is stored in, and the cells a crescent's query reads.
StoredCell(g) ==
    LET nx == (image_width \div 50) + 1
        ny == (image_height \div 50) + 1
        fx == g.x \div 50
        fy == g.y \div 50
    IN  <<IF fx < 0 THEN 0 ELSE IF fx > nx - 1 THEN nx - 1 ELSE fx,
          IF fy < 0 THEN 0 ELSE IF fy > ny - 1 THEN ny - 1 ELSE fy>>

InSearched(c, g) ==
    LET cx == c.x \div 50
        cy == c.y \div 50
    IN  /\ StoredCell(g)[1] \in (cx - 1)..(cx + 1)
        /\ StoredCell(g)[2] \in (cy - 1)..(cy + 1)

\* Globule g could be chosen for crescent c when g is free.
Eligible(c, g) == InSearched(c, g) /\ InRadius(c, g) /\ AboveFloor(c, g)

\* The globules Used when the n-th pair was made: those of the earlier pairs.
UsedBeforePair(n) == { linked_particles[j].globule : j \in 1..(n - 1) }

\* The globules Used when crescent k was decided: pairs are appended in
\* crescent order, so these are the globules of the pairs of earlier crescents.
UsedBeforeCrescent(k) ==
    { linked_particles[j].globule :
        j \in { i \in 1..PairCount : linked_particles[i].crescent < k } }

Occurrences(seq, test(_)) == Cardinality({ k \in 1..Len(seq) : test(seq[k]) })

(***************************************************************************)
(* C1  Conservation.  In the returned result the pairs and the ambiguous   *)
(* crescents number the crescents, the pairs and the ambiguous globules    *)
(* number the globules, and every input particle occurs exactly once, as   *)
(* the member of one pair or as one ambiguous entry.                       *)
(***************************************************************************)
C1_Conservation ==
    Returned =>
        /\ PairCount + Len(AmbiguousOf("crescent")) = Len(crescents)
        /\ PairCount + Len(AmbiguousOf("globule")) = Len(globules)
        /\ \A k \in 1..Len(crescents) :
               Occurrences(linked_particles, LAMBDA p : p.crescent = k)
                 + Occurrences(ambiguous_particles,
                               LAMBDA a : a.type = "crescent" /\ a.particle = k) = 1
        /\ \A k \in 1..Len(globules) :
               Occurrences(linked_particles, LAMBDA p : p.globule = k)
                 + Occurrences(ambiguous_particles,
                               LAMBDA a : a.type = "globule" /\ a.particle = k) = 1
        /\ \A n \in 1..PairCount :
               /\ linked_particles[n].crescent \in 1..Len(crescents)
               /\ linked_particles[n].globule \in 1..Len(globules)

\* A returned result with a pair, an ambiguous crescent and an ambiguous globule.
C1_Witness ==
    /\ Returned
    /\ PairCount = 1
    /\ Len(AmbiguousOf("crescent")) = 1
    /\ Len(AmbiguousOf("globule")) = 1

(***************************************************************************)
(* C2  Exclusivity.  In every state of a run, no globule is the globule of *)
(* two pairs and no crescent is the crescent of two pairs.                 *)
(***************************************************************************)
C2_Exclusivity ==
    \A i, j \in 1..PairCount :
        i # j => /\ linked_particles[i].globule # linked_particles[j].globule
                 /\ linked_particles[i].crescent # linked_particles[j].crescent

\* Two pairs, the second crescent being one that the first pair's globule
\* would have suited as well.
C2_Witness ==
    /\ PairCount = 2
    /\ Eligible(crescents[linked_particles[2].crescent],
                globules[linked_particles[1].globule])

(***************************************************************************)
(* C3  Radius bound.  The distance of every pair is the centroid distance  *)
(* of its two particles and is at most 3 * sqrt(crescent.area / pi).       *)
(***************************************************************************)
C3_RadiusBound ==
    \A n \in 1..PairCount :
        LET c == crescents[linked_particles[n].crescent]
            g == globules[linked_particles[n].globule]
        IN  /\ linked_particles[n].distance = DistSq(c, g)
            /\ InRadius(c, g)

\* A returned pair whose distance equals the limit.
C3_Witness ==
    /\ Returned
    /\ \E n \in 1..PairCount :
           OnRadius(crescents[linked_particles[n].crescent],
                    globules[linked_particles[n].globule])

(***************************************************************************)
(* C4  Area floor.  In every pair, globule.area >= 0.25 * crescent.area.   *)
(***************************************************************************)
C4_AreaFloor ==
    \A n \in 1..PairCount :
        AboveFloor(crescents[linked_particles[n].crescent],
                   globules[linked_particles[n].globule])

\* A returned pair whose globule has exactly a quarter of the crescent's area,
\* the crescent's area not being 0.
C4_Witness ==
    /\ Returned
    /\ \E n \in 1..PairCount :
           /\ crescents[linked_particles[n].crescent].area > 0
           /\ OnFloor(crescents[linked_particles[n].crescent],
                      globules[linked_particles[n].globule])

(***************************************************************************)
(* C5  Order sensitivity.  With one globule G and two crescents that are   *)
(* both eligible for it, the crescent given first is linked with G and the *)
(* one given second is ambiguous; the input lists range over both orders.  *)
(***************************************************************************)
C5_Contested ==
    /\ Len(crescents) = 2
    /\ Len(globules) = 1
    /\ Eligible(crescents[1], globules[1])
    /\ Eligible(crescents[2], globules[1])

C5_OrderSensitivity ==
    (Returned /\ C5_Contested) =>
        /\ PairCount = 1
        /\ linked_particles[1].crescent = 1
        /\ linked_particles[1].globule = 1
        /\ ambiguous_particles = <<[particle |-> 2, type |-> "crescent"]>>

\* Two different crescents contest the globule, and the run has returned.
C5_Witness ==
    /\ Returned
    /\ C5_Contested
    /\ crescents[1] # crescents[2]

(***************************************************************************)
(* C6  Largest-area selection.  The globule of every pair was eligible and *)
(* free when its crescent was processed, and no globule that was eligible  *)
(* and free then has a larger area.                                        *)
(***************************************************************************)
FreeEligibleAt(n) ==
    { g \in 1..Len(globules) :
        /\ g \notin UsedBeforePair(n)
        /\ Eligible(crescents[linked_particles[n].crescent], globules[g]) }

C6_LargestArea ==
    \A n \in 1..PairCount :
        /\ linked_particles[n].globule \in FreeEligibleAt(n)
        /\ \A g \in FreeEligibleAt(n) :
               globules[g].area <= globules[linked_particles[n].globule].area

\* A pair whose globule is not the nearest of the free eligible ones.
C6_Witness ==
    /\ Returned
    /\ \E n \in 1..PairCount : \E g \in FreeEligibleAt(n) :
           DistSq(crescents[linked_particles[n].crescent], globules[g])
             < linked_particles[n].distance

(***************************************************************************)
(* C7  Degenerate inputs.  No run with an empty list raises; with no       *)
(* crescents the result has no pair and one ambiguous globule entry per    *)
(* globule, with no globules no pair and one ambiguous crescent entry per  *)
(* crescent, and with both empty it is empty.                              *)
(***************************************************************************)
C7_Degenerate ==
    /\ (crescents = <<>> \/ globules = <<>>) => pc # "error"
    /\ (Returned /\ crescents = <<>>) =>
           /\ linked_particles = <<>>
           /\ ambiguous_particles =
                  [k \in 1..Len(globules) |-> [particle |-> k, type |-> "globule"]]
    /\ (Returned /\ globules = <<>>) =>
           /\ linked_particles = <<>>
           /\ ambiguous_particles =
                  [k \in 1..Len(crescents) |-> [particle |-> k, type |-> "crescent"]]

\* A returned run on no crescents and two globules.
C7_Witness ==
    /\ Returned
    /\ crescents = <<>>
    /\ Len(globules) = 2
    /\ Len(ambiguous_particles) = 2

(***************************************************************************)
(* C8  Grid equivalence.  When the query of every crescent reads the whole *)
(* grid, the run returns the pairs and ambiguous entries of the            *)
(* brute-force variant, provided that no crescent, when it is processed,   *)
(* has two free globules within its radius limit and above its area floor  *)
(* that share the largest such area and lie at the same distance.          *)
(***************************************************************************)
\* The cells [cx - 1, cx + 1] x [cy - 1, cy + 1] of c's query hold the grid.
QueryCoversGrid(c) ==
    LET nx == (image_width \div 50) + 1
        ny == (image_height \div 50) + 1
        cx == c.x \div 50
        cy == c.y \div 50
    IN  cx - 1 <= 0 /\ nx - 1 <= cx + 1 /\ cy - 1 <= 0 /\ ny - 1 <= cy + 1

C8_Covered == \A k \in 1..Len(crescents) : QueryCoversGrid(crescents[k])

\* The free globules that pass crescent k's radius and area tests.
FreeSurvivors(k) ==
    { g \in 1..Len(globules) :
        /\ g \notin UsedBeforeCrescent(k)
        /\ InRadius(crescents[k], globules[g])
        /\ AboveFloor(crescents[k], globules[g]) }

C8_TiedLargest(k) ==
    \E g1, g2 \in FreeSurvivors(k) :
        /\ g1 # g2
        /\ globules[g1].area = globules[g2].area
        /\ DistSq(crescents[k], globules[g1]) = DistSq(crescents[k], globules[g2])
        /\ \A g \in FreeSurvivors(k) : globules[g].area <= globules[g1].area

C8_SameAsBruteForce ==
    /\ linked_particles = BruteForceLink(crescents, globules).linked_particles
    /\ ambiguous_particles = BruteForceLink(crescents, globules).ambiguous_particles

\* The claim as stated: equal for every input whose queries read the grid.
C8_GridEquivalenceAsStated ==
    (Returned /\ C8_Covered) => C8_SameAsBruteForce

C8_GridEquivalence ==
    (Returned /\ C8_Covered /\ \A k \in 1..Len(crescents) : ~C8_TiedLargest(k))
        => C8_SameAsBruteForce

\* A grid of three columns read whole by the queries, no tie, and a pair
\* whose globule is stored in another cell than its crescent's.
C8_Witness ==
    /\ Returned
    /\ image_width = 120
    /\ C8_Covered
    /\ \A k \in 1..Len(crescents) : ~C8_TiedLargest(k)
    /\ \E n \in 1..PairCount :
           LET c == crescents[linked_particles[n].crescent]
           IN  StoredCell(globules[linked_particles[n].globule])
                 # <<c.x \div 50, c.y \div 50>>

(***************************************************************************)
(* C9  Totality.  On every input list and image size, including 0 x 0 and  *)
(* particles outside the image, a run never raises (it is always at one of *)
(* its steps, inside its loops' ranges, with the grid built), comes nearer *)
(* to its return with every step, and returns a result whose entries refer *)
(* to particles of the input.                                              *)
(***************************************************************************)
C9_WellFormed ==
    /\ \A n \in 1..PairCount :
           /\ linked_particles[n].crescent \in 1..Len(crescents)
           /\ linked_particles[n].globule \in 1..Len(globules)
           /\ linked_particles[n].distance >= 0
    /\ \A n \in 1..Len(ambiguous_particles) :
           /\ ambiguous_particles[n].type \in {"crescent", "globule"}
           /\ ambiguous_particles[n].particle \in
                  1..(IF ambiguous_particles[n].type = "crescent"
                      THEN Len(crescents) ELSE Len(globules))

\* The steps of link_crescents_to_globules.
C9_LinkStep ==
    StartLink \/ LinkCrescent \/ EndCrescents \/ MarkGlobule \/ ReturnLink

\* The number of steps a run at this point has left.
C9_StepsLeft ==
    CASE pc = "call" -> Len(crescents) + Len(globules) + 3
      [] pc = "crescents" -> (Len(crescents) + 1 - ci) + Len(globules) + 2
      [] pc = "globules" -> (Len(globules) + 1 - gi) + 1
      [] OTHER -> 0

\* The grid exists with at least one cell, so that len(spatial_map[0]) and
\* the cells a query scans are there.
C9_GridBuilt ==
    /\ DOMAIN spatial_map = 0..(image_width \div 50)
    /\ \A cx \in DOMAIN spatial_map : DOMAIN spatial_map[cx] = 0..(image_height \div 50)

C9_Totality ==
    /\ [](/\ pc \in {"call", "crescents", "globules", "done"}
          /\ ci \in 1..(Len(crescents) + 1)
          /\ gi \in 1..(Len(globules) + 1)
          /\ pc # "call" => C9_GridBuilt
          /\ Returned => C9_WellFormed)
    /\ [][C9_LinkStep => C9_StepsLeft' < C9_StepsLeft]_vars

\* A returned run on a 0 x 0 image with a globule and a crescent whose cell
\* indices are not those of the grid's only cell.
C9_Witness ==
    /\ Returned
    /\ image_width = 0
    /\ image_height = 0
    /\ \E g \in 1..Len(globules) : globules[g].x \div 50 > 0
    /\ \E g \in 1..Len(globules) : globules[g].x < 0
    /\ \E k \in 1..Len(crescents) : crescents[k].x < 0

(***************************************************************************)
(* C10  Nucleation percentage.  calculate_statistics never divides by      *)
(* zero; its percentage is 100 * pairs / total_globules when               *)
(* total_globules > 0, and 0 when total_globules = 0.                      *)
(***************************************************************************)
C10_NucleationPercent ==
    stats # None =>
        LET pct == stats[1].globule_with_crescent_percent
            tg == stats[1].total_globules
        IN  /\ pct.den > 0
            /\ tg > 0 => pct.num * tg = 100 * PairCount * pct.den
            /\ tg = 0 => pct = [num |-> 0, den |-> 1]

\* 2 pairs and 4 globules give 50.
C10_Witness ==
    /\ stats # None
    /\ PairCount = 2
    /\ stats[1].total_globules = 4
    /\ stats[1].globule_with_crescent_percent = [num |-> 50, den |-> 1]

(***************************************************************************)
(* C11  Average areas.  For every (pairs, total_globules, total_crescents) *)
(* the two averages of calculate_statistics are the arithmetic means of    *)
(* the crescent areas and of the globule areas of the pairs, whatever the  *)
(* totals; they are 0 when there is no pair, and, the paired areas being   *)
(* positive, both are 0 only then.                                         *)
(***************************************************************************)
RECURSIVE C11_AreaSum(_, _, _)
C11_AreaSum(particles, side(_), n) ==
    IF n = 0 THEN 0
    ELSE particles[side(linked_particles[n])].area
           + C11_AreaSum(particles, side, n - 1)

\* The fraction f is the mean of n > 0 values of the given sum.
C11_IsMean(f, sum, n) == f.den > 0 /\ f.num * n = sum * f.den

C11_PositiveAreas ==
    \A n \in 1..PairCount :
        /\ crescents[linked_particles[n].crescent].area > 0
        /\ globules[linked_particles[n].globule].area > 0

C11_AverageAreas ==
    stats # None =>
        LET avg_c == stats[1].average_crescent_area
            avg_g == stats[1].average_globule_area
        IN  /\ PairCount > 0 =>
                   /\ C11_IsMean(avg_c,
                                 C11_AreaSum(crescents, LAMBDA p : p.crescent,
                                             PairCount),
                                 PairCount)
                   /\ C11_IsMean(avg_g,
                                 C11_AreaSum(globules, LAMBDA p : p.globule,
                                             PairCount),
                                 PairCount)
            /\ PairCount = 0 => avg_c.num = 0 /\ avg_g.num = 0
            /\ C11_PositiveAreas =>
                   ((avg_c.num = 0 /\ avg_g.num = 0) <=> PairCount = 0)

\* The same for the calls with total_globules > 0.
C11_AverageAreasOfCountedGlobules ==
    (stats # None /\ stats[1].total_globules > 0) => C11_AverageAreas

(***************************************************************************)
(* C12  Invalid geometry is rejected.  A run given a particle of negative  *)
(* area or negative perimeter is refused at the start of the link: it does *)
(* not get past the call, and no pair, ambiguous entry or statistic is     *)
(* computed.                                                               *)
(***************************************************************************)
C12_Invalid(p) == p.area < 0 \/ p.perimeter < 0

C12_HasInvalid ==
    \/ \E k \in 1..Len(crescents) : C12_Invalid(crescents[k])
    \/ \E k \in 1..Len(globules) : C12_Invalid(globules[k])

C12_InvalidRejected ==
    C12_HasInvalid =>
        /\ pc \in {"call", "error"}
        /\ linked_particles = <<>>
        /\ ambiguous_particles = <<>>
        /\ stats = None

\* What the code does instead: a returned result with a pair made of a
\* particle of negative perimeter, or with an ambiguous entry that is a
\* particle of negative area, and statistics of it.
C12_InvalidLinked ==
    /\ stats # None
    /\ \E n \in 1..PairCount :
           \/ crescents[linked_particles[n].crescent].perimeter < 0
           \/ globules[linked_particles[n].globule].perimeter < 0

C12_InvalidAmbiguous ==
    /\ Returned
    /\ \E n \in 1..Len(ambiguous_particles) :
           /\ ambiguous_particles[n].type = "crescent"
           /\ crescents[ambiguous_particles[n].particle].area < 0

(***************************************************************************)
(* C13  Configuration errors fail fast.  A linker with a non-positive cell *)
(* width or height is refused when it is constructed: no link run of such  *)
(* a linker starts, so none fails inside the run and none returns a        *)
(* result.                                                                 *)
(***************************************************************************)
C13_NonPositive == map_length <= 0 \/ map_width <= 0

C13_FailFast == C13_NonPositive => pc = "call"

\* What the code does instead: the run fails inside create_spatial_map or
\* the first query, or returns a result.
C13_FailsInsideLink == C13_NonPositive /\ pc = "error"

C13_SilentResult == C13_NonPositive /\ Returned /\ PairCount > 0

(***************************************************************************)
(* C14  Batch isolation of failures.  In run_batch_analysis a pair whose   *)
(* processing raises is recorded with success = False and the loop goes    *)
(* on: at every point of the loop the results are those of the pairs so    *)
(* far, one per pair and in discovery order, failed ones included, and the *)
(* loop is left only when every pair has its result.                       *)
(***************************************************************************)
C14_BatchIsolation ==
    batch_pc # "find" =>
        /\ Len(results) = pair_i - 1
        /\ \A n \in 1..Len(results) :
               /\ results[n].filename = n
               /\ results[n].success = (image_pairs[n] = "ok")
        /\ (batch_pc \in {"returned", "raised"} /\ image_pairs # <<>>)
               => Len(results) = Len(image_pairs)

\* A returned batch whose first pair failed and whose second succeeded.
C14_Witness ==
    /\ batch_pc = "returned"
    /\ Len(image_pairs) = 2
    /\ image_pairs[1] = "link"
    /\ ~results[1].success
    /\ results[2].success

(***************************************************************************)
(* C15  Independence of runs.  Of two link runs on different image pairs   *)
(* that share one GlobulatorLinker and whose steps are interleaved in any  *)
(* order, neither raises and each returns the pairs and ambiguous entries  *)
(* it returns when run alone.                                              *)
(***************************************************************************)
C15_AsAlone(f) ==
    /\ f.pc # "error"
    /\ f.pc = "done" =>
           LET alone == LinkAlone(f.crescents, f.globules,
                                  f.image_width, f.image_height)
           IN  /\ f.linked_particles = alone.linked_particles
               /\ f.ambiguous_particles = alone.ambiguous_particles

C15_Independence ==
    other # None => C15_AsAlone(RunningFrame) /\ C15_AsAlone(other[1])

\* The second run has returned a pair while the first run is suspended in
\* its crescent loop with a pair made and a crescent to go.
C15_Witness ==
    /\ other # None
    /\ running = 2
    /\ Returned
    /\ PairCount >= 1
    /\ other[1].pc = "crescents"
    /\ Len(other[1].linked_particles) = 1
    /\ other[1].ci = 2
    /\ Len(other[1].crescents) = 2

(***************************************************************************)
(* C16  Used is irrevocable.  No step of a run takes a globule out of the  *)
(* Used set; the globule of a pair made by a step was not Used before the  *)
(* step; and the candidates offered to the matcher for the crescent to be  *)
(* decided hold no Used globule.                                           *)
(***************************************************************************)
C16_NoneOffered ==
    (pc = "crescents" /\ ci <= Len(crescents)) =>
        \A n \in 1..Len(AvailableGlobules(ci)) :
            AvailableGlobules(ci)[n].globule \notin used_globules

C16_StaysUsed ==
    /\ used_globules \subseteq used_globules'
    /\ \A n \in (Len(linked_particles) + 1)..Len(linked_particles') :
           linked_particles'[n].globule \notin used_globules

C16_UsedIrrevocable == []C16_NoneOffered /\ [][C16_StaysUsed]_vars

\* Two pairs, the second crescent linked with a smaller globule than the
\* first one's, which suited it too and was Used.
C16_Witness ==
    /\ Returned
    /\ PairCount = 2
    /\ used_globules = {1, 2}
    /\ Eligible(crescents[linked_particles[2].crescent],
                globules[linked_particles[1].globule])
    /\ globules[linked_particles[1].globule].area
         > globules[linked_particles[2].globule].area

(***************************************************************************)
(* C17  Crescent decisions are final and made in input order.  At every    *)
(* point of a run the crescents before the loop's position are decided,    *)
(* each once, as a pair or as an ambiguous entry, and no other is; pairs   *)
(* and ambiguous crescents stand in input order; and every step leaves the *)
(* entries already made as they are, an iteration of the crescent loop     *)
(* adding, at the end of one list, the one entry of its crescent.          *)
(***************************************************************************)
C17_Decisions(k) ==
    Occurrences(linked_particles, LAMBDA p : p.crescent = k)
      + Occurrences(ambiguous_particles,
                    LAMBDA a : a.type = "crescent" /\ a.particle = k)

C17_InInputOrder ==
    /\ \A k \in 1..Len(crescents) : C17_Decisions(k) = IF k < ci THEN 1 ELSE 0
    /\ \A i, j \in 1..PairCount :
           i < j => linked_particles[i].crescent < linked_particles[j].crescent
    /\ \A i, j \in 1..Len(AmbiguousOf("crescent")) :
           i < j => AmbiguousOf("crescent")[i].particle
                      < AmbiguousOf("crescent")[j].particle

C17_Extends(old, new) ==
    Len(old) <= Len(new) /\ SubSeq(new, 1, Len(old)) = old

C17_Final ==
    /\ C17_Extends(linked_particles, linked_particles')
    /\ C17_Extends(ambiguous_particles, ambiguous_particles')
    /\ ci' \in {ci, ci + 1}
    /\ ci' = ci => linked_particles' = linked_particles
    /\ ci' = ci + 1 =>
           Len(linked_particles') + Len(ambiguous_particles')
             = Len(linked_particles) + Len(ambiguous_particles) + 1

C17_DecisionsFinal == []C17_InInputOrder /\ [][C17_Final]_vars

\* A returned run whose first crescent is ambiguous, whose second is linked,
\* and whose globule loop has added an entry after them.
C17_Witness ==
    /\ Returned
    /\ Len(crescents) = 2
    /\ PairCount = 1
    /\ linked_particles[1].crescent = 2
    /\ Len(ambiguous_particles) = 2
    /\ ambiguous_particles[1] = [particle |-> 1, type |-> "crescent"]
    /\ ambiguous_particles[2].type = "globule"

(***************************************************************************)
(* C18  Statistics are pure and repeatable.  A call of                     *)
(* calculate_statistics leaves the pairs, the ambiguous entries and the    *)
(* particles as they were, and a call that follows another with the same   *)
(* totals on the same pairs returns the same statistics.                   *)
(***************************************************************************)
C18_SameTotals ==
    /\ stats # None
    /\ stats' # None
    /\ stats'[1].total_globules = stats[1].total_globules
    /\ stats'[1].total_crescents = stats[1].total_crescents

C18_Call ==
    /\ pc = "done" =>
           /\ linked_particles' = linked_particles
           /\ ambiguous_particles' = ambiguous_particles
           /\ crescents' = crescents
           /\ globules' = globules
    /\ C18_SameTotals => stats' = stats

C18_PureRepeatable == [][C18_Call]_vars

\* Statistics of two pairs, from a call with a total_crescents that is not
\* the pipeline's.
C18_Witness ==
    /\ stats # None
    /\ PairCount = 2
    /\ stats[1].linked_pairs = 2
    /\ stats[1].total_crescents = 0
    /\ stats[1].average_globule_area.num > 0

(***************************************************************************)
(* C19  Grid dimensions.  create_spatial_map builds a grid of              *)
(* floor(image_width / 50) + 1 columns of floor(image_height / 50) + 1     *)
(* cells each, including when the image size is not a multiple of the cell *)
(* size.                                                                   *)
(***************************************************************************)
\* The grid of the run has been built.
C19_Built == pc \in {"crescents", "globules", "done"}

C19_Columns == Cardinality(DOMAIN spatial_map)
C19_RowsOf(cx) == Cardinality(DOMAIN spatial_map[cx])

\* The ceiling of a / 50.
C19_Ceil(a) == 0 - ((0 - a) \div 50)

\* The claim as stated: ceil(image_width / 50) + 1 columns and
\* ceil(image_height / 50) + 1 rows.
C19_GridDimensionsAsStated ==
    C19_Built =>
        /\ C19_Columns = C19_Ceil(image_width) + 1
        /\ \A cx \in DOMAIN spatial_map :
               C19_RowsOf(cx) = C19_Ceil(image_height) + 1

C19_GridDimensions ==
    C19_Built =>
        /\ C19_Columns = (image_width \div 50) + 1
        /\ DOMAIN spatial_map = 0..(C19_Columns - 1)
        /\ \A cx \in DOMAIN spatial_map :
               /\ C19_RowsOf(cx) = (image_height \div 50) + 1
               /\ DOMAIN spatial_map[cx] = 0..(C19_RowsOf(cx) - 1)

\* The grid of a 120 x 60 image: 3 columns of 2 cells.
C19_Witness ==
    /\ C19_Built
    /\ image_width = 120
    /\ image_height = 60
    /\ C19_Columns = 3
    /\ C19_RowsOf(0) = 2

(***************************************************************************)
(* C20  Grid placement.  In the grid create_spatial_map returns every      *)
(* globule is stored once and in one cell only, the cell                   *)
(* (clamp(floor(x / 50), 0, nx - 1), clamp(floor(y / 50), 0, ny - 1)) of   *)
(* the nx x ny grid, so that a globule with a negative coordinate or one   *)
(* beyond the image is in the nearest border cell; the cells hold nothing  *)
(* else; and no later step of the run writes the grid.                     *)
(***************************************************************************)
C20_Clamp(v, lo, hi) == IF v < lo THEN lo ELSE IF v > hi THEN hi ELSE v

C20_CellOf(g) ==
    <<C20_Clamp(g.x \div 50, 0, C19_Columns - 1),
      C20_Clamp(g.y \div 50, 0, C19_RowsOf(0) - 1)>>

\* The places <<column, row, position>> of the grid.
C20_Places ==
    { pl \in (DOMAIN spatial_map) \X (0..(C19_RowsOf(0) - 1))
                 \X (1..Len(globules)) :
        pl[3] <= Len(spatial_map[pl[1]][pl[2]]) }

C20_PlacesOf(g) ==
    { pl \in C20_Places : spatial_map[pl[1]][pl[2]][pl[3]] = g }

\* The grid has just been returned to the run.
C20_JustBuilt == pc = "crescents" /\ ci = 1

C20_Placed ==
    C20_JustBuilt =>
        /\ \A g \in 1..Len(globules) :
               /\ Cardinality(C20_PlacesOf(g)) = 1
               /\ \A pl \in C20_PlacesOf(g) :
                      <<pl[1], pl[2]>> = C20_CellOf(globules[g])
        /\ \A cx \in DOMAIN spatial_map : \A cy \in DOMAIN spatial_map[cx] :
               /\ Len(spatial_map[cx][cy]) <= Len(globules)
               /\ \A k \in 1..Len(spatial_map[cx][cy]) :
                      spatial_map[cx][cy][k] \in 1..Len(globules)

C20_GridPlacement ==
    /\ []C20_Placed
    /\ [][C19_Built => spatial_map' = spatial_map]_vars

\* On the 120 x 60 image, a globule left of the image in the first column
\* and a globule below the image in the last row.
C20_Witness ==
    /\ C19_Built
    /\ image_width = 120
    /\ image_height = 60
    /\ Len(globules) = 2
    /\ globules[1].x < 0
    /\ globules[2].y > 60
    /\ spatial_map[0][0] = <<1>>
    /\ spatial_map[0][1] = <<2>>

(***************************************************************************)
(* C21  Neighbourhood query.  For every crescent, with cell (cx, cy), and  *)
(* every search radius r, get_nearby_globules on the grid of the run       *)
(* returns the globules stored in the cells [cx - r, cx + r] x             *)
(* [cy - r, cy + r] of the grid, each once, and no other globule.          *)
(***************************************************************************)
\* Globule g is stored in a cell of c's neighbourhood of radius r.
C21_InCells(c, g, r) ==
    \E cell \in {C20_CellOf(g)} :
        /\ cell[1] \in ((c.x \div 50) - r)..((c.x \div 50) + r)
        /\ cell[2] \in ((c.y \div 50) - r)..((c.y \div 50) + r)

C21_Returned(k, r) ==
    get_nearby_globules(crescents[k], globules, spatial_map, r)

C21_ExactlyOnce(c, r, returned) ==
    /\ \A g \in 1..Len(globules) :
           Occurrences(returned, LAMBDA e : e.globule = g)
             = IF C21_InCells(c, globules[g], r) THEN 1 ELSE 0
    /\ \A n \in 1..Len(returned) : returned[n].globule \in 1..Len(globules)

C21_Exact(k, r) ==
    \A returned \in {C21_Returned(k, r)} :
        C21_ExactlyOnce(crescents[k], r, returned)

C21_NeighbourhoodQuery ==
    [](C20_JustBuilt =>
           \A k \in 1..Len(crescents) : \A r \in 0..MaxSearchRadius :
               C21_Exact(k, r))

\* With the default radius, a crescent of the 120 x 60 image is returned a
\* globule of another cell than its own and is not returned a globule that
\* is stored two columns away.
C21_Witness ==
    /\ C20_JustBuilt
    /\ image_width = 120
    /\ Len(crescents) >= 1
    /\ Len(globules) = 2
    /\ C20_CellOf(globules[1]) = <<2, 0>>
    /\ C20_CellOf(globules[2]) = <<0, 1>>
    /\ crescents[1].x \div 50 = 0
    /\ Len(C21_Returned(1, 1)) = 1
    /\ C21_Returned(1, 1)[1].globule = 2

(***************************************************************************)
(* C22  Greedy, not globally optimal.  The pairs of a result never         *)
(* outnumber a maximum one-to-one matching over the eligible pairs, and    *)
(* there are inputs (C22_Witness) on which they are strictly fewer.        *)
(* Whenever they are fewer, some crescent is Ambiguous although it is      *)
(* eligible for a globule: every globule it is eligible for was taken by   *)
(* an earlier crescent, and one of those earlier crescents was itself      *)
(* eligible for another globule.                                           *)
(***************************************************************************)
C22_EligiblePairs ==
    { e \in (1..Len(crescents)) \X (1..Len(globules)) :
        Eligible(crescents[e[1]], globules[e[2]]) }

C22_OneToOne(m) ==
    \A e \in m : \A f \in m : (e[1] = f[1] \/ e[2] = f[2]) => e = f

C22_MaximumMatching ==
    LET sizes == { Cardinality(m) :
                     m \in { n \in SUBSET C22_EligiblePairs : C22_OneToOne(n) } }
    IN  CHOOSE n \in sizes : \A o \in sizes : o <= n

\* Crescent k lost its globules to earlier crescents, one of which had a
\* second choice.
C22_Robbed(k) ==
    /\ \E a \in 1..Len(ambiguous_particles) :
           ambiguous_particles[a] = [particle |-> k, type |-> "crescent"]
    /\ \A g \in 1..Len(globules) :
           Eligible(crescents[k], globules[g]) => g \in UsedBeforeCrescent(k)
    /\ \E n \in 1..PairCount :
           /\ linked_particles[n].crescent < k
           /\ Eligible(crescents[k], globules[linked_particles[n].globule])
           /\ \E g \in 1..Len(globules) :
                  /\ g # linked_particles[n].globule
                  /\ Eligible(crescents[linked_particles[n].crescent],
                              globules[g])

C22_JustReturned == Returned /\ stats = None

C22_GreedyNotOptimal ==
    [](C22_JustReturned =>
           /\ PairCount <= C22_MaximumMatching
           /\ PairCount < C22_MaximumMatching =>
                  \E k \in 1..Len(crescents) : C22_Robbed(k))

\* The first crescent is eligible for both globules and takes the nearer of
\* the two equal ones, the only one the second crescent is eligible for: one
\* pair is returned where two are possible.
C22_Witness ==
    /\ C22_JustReturned
    /\ Len(crescents) = 2
    /\ Len(globules) = 2
    /\ Eligible(crescents[1], globules[1])
    /\ Eligible(crescents[1], globules[2])
    /\ Eligible(crescents[2], globules[1])
    /\ ~Eligible(crescents[2], globules[2])
    /\ C22_MaximumMatching = 2
    /\ PairCount = 1
    /\ linked_particles[1].crescent = 1
    /\ linked_particles[1].globule = 1
    /\ C22_Robbed(2)

(***************************************************************************)
(* C23  Tie-break on equal largest area.  Given a candidate list in any    *)
(* order, the matcher returns the first entry of the list among the        *)
(* surviving candidates of largest area; and in link, where the list is in *)
(* ascending distance, no free eligible globule of the same area as the    *)
(* linked one is nearer to the crescent than the linked one.               *)
(***************************************************************************)
C23_Survives(c, e) ==
    /\ 355 * e.distance <= 9 * c.area * 113
    /\ 4 * globules[e.globule].area >= c.area

C23_Largest(c, s, k) ==
    /\ C23_Survives(c, s[k])
    /\ \A j \in 1..Len(s) :
           C23_Survives(c, s[j])
               => globules[s[j].globule].area <= globules[s[k].globule].area

C23_FirstOfLargest(c, s) ==
    LET best == find_best_globule_for_crescent(c, globules, s)
    IN  IF \E k \in 1..Len(s) : C23_Survives(c, s[k])
        THEN \E k \in 1..Len(s) :
                 /\ C23_Largest(c, s, k)
                 /\ \A j \in 1..(k - 1) : ~C23_Largest(c, s, j)
                 /\ best = <<s[k]>>
        ELSE best = <<>>

\* The candidate list s in every order.
C23_Orders(s) ==
    { [i \in 1..Len(s) |-> s[f[i]]] : f \in Permutations(1..Len(s)) }

C23_NearestOfTied ==
    \A n \in 1..PairCount :
        \A g \in FreeEligibleAt(n) :
            globules[g].area = globules[linked_particles[n].globule].area
                => /\ linked_particles[n].distance
                        = DistSq(crescents[linked_particles[n].crescent],
                                 globules[linked_particles[n].globule])
                   /\ linked_particles[n].distance
                        <= DistSq(crescents[linked_particles[n].crescent],
                                  globules[g])

C23_TieBreak ==
    /\ [](pc = "crescents" /\ ci <= Len(crescents) =>
             \A s \in C23_Orders(AvailableGlobules(ci)) :
                 C23_FirstOfLargest(crescents[ci], s))
    /\ [](pc = "globules" /\ gi = 1 => C23_NearestOfTied)

\* Two free eligible globules of the same, largest, area at different
\* distances: the farther one comes first in the input list and the nearer
\* one is linked.
C23_Witness ==
    /\ pc = "globules"
    /\ gi = 1
    /\ Len(globules) = 2
    /\ PairCount >= 1
    /\ linked_particles[1].globule = 2
    /\ 1 \in FreeEligibleAt(1)
    /\ globules[1].area = globules[2].area
    /\ DistSq(crescents[linked_particles[1].crescent], globules[1])
          > DistSq(crescents[linked_particles[1].crescent], globules[2])

(***************************************************************************)
(* C24  Reported pair count.  The statistics of every call of              *)
(* calculate_statistics report linked_pairs equal to the number of pairs   *)
(* given to the call, whatever total_globules is, 0 included.              *)
(***************************************************************************)
C24_ReportedPairCount ==
    stats # None => stats[1].linked_pairs = PairCount

\* The same for the calls with total_globules > 0.
C24_ReportedPairCountOfCountedGlobules ==
    (stats # None /\ stats[1].total_globules > 0) => C24_ReportedPairCount

\* A call with total_globules = 0 on a result with a pair.
C24_ZeroTotalWithPairs ==
    /\ stats # None
    /\ stats[1].total_globules = 0
    /\ PairCount > 0
    /\ stats[1].linked_pairs = 0

(***************************************************************************)
(* C25  Particles are read-only.  No step of link or of                    *)
(* calculate_statistics changes a field (area, x, y, perimeter,            *)
(* circularity) of an input particle, or the length or the order of the    *)
(* crescent list or of the globule list; and a call of                     *)
(* calculate_statistics leaves the list of pairs it is given as it was.    *)
(***************************************************************************)
C25_SameParticles(old, new) ==
    /\ Len(new) = Len(old)
    /\ \A k \in 1..Len(old) :
           /\ new[k].area = old[k].area
           /\ new[k].x = old[k].x
           /\ new[k].y = old[k].y
           /\ new[k].perimeter = old[k].perimeter
           /\ new[k].circularity = old[k].circularity

C25_Step ==
    /\ C25_SameParticles(crescents, crescents')
    /\ C25_SameParticles(globules, globules')
    /\ stats' # stats => linked_particles' = linked_particles

C25_ReadOnly == [][C25_Step]_vars

\* Link and the statistics have both run on two different crescents and two
\* globules, one of them left of the image: it is stored in a border cell
\* and linked, and it still has its coordinates.
C25_Witness ==
    /\ stats # None
    /\ Len(crescents) = 2
    /\ crescents[1] # crescents[2]
    /\ Len(globules) = 2
    /\ globules[1].x < 0
    /\ PairCount >= 1
    /\ linked_particles[1].globule = 1
    /\ spatial_map[0][0] # <<>>

(***************************************************************************)
(* C26  Output ordering.  No globule entry is in the ambiguous list while  *)
(* a crescent is still to be decided.  In the returned result the pairs    *)
(* are in crescent input order, and the ambiguous list is the ambiguous    *)
(* crescents in crescent input order followed by the ambiguous globules in *)
(* globule input order.                                                    *)
(***************************************************************************)
C26_NoEarlyGlobule ==
    (\E a \in 1..Len(ambiguous_particles) :
         ambiguous_particles[a].type = "globule")
        => pc \in {"globules", "done"} /\ ci > Len(crescents)

C26_PairsInOrder ==
    \A n \in 1..PairCount : \A o \in 1..PairCount :
        n < o => linked_particles[n].crescent < linked_particles[o].crescent

C26_AmbiguousInOrder ==
    \A a \in 1..Len(ambiguous_particles) :
        \A b \in 1..Len(ambiguous_particles) :
            a < b =>
                LET first == ambiguous_particles[a]
                    second == ambiguous_particles[b]
                IN  /\ ~(first.type = "globule" /\ second.type = "crescent")
                    /\ first.type = second.type
                           => first.particle < second.particle

C26_OutputOrdering ==
    /\ []C26_NoEarlyGlobule
    /\ [](Returned => C26_PairsInOrder /\ C26_AmbiguousInOrder)

\* A result with two ambiguous crescents followed by two ambiguous globules.
C26_Witness ==
    /\ Returned
    /\ Len(ambiguous_particles) = 4
    /\ ambiguous_particles[2].type = "crescent"
    /\ ambiguous_particles[3].type = "globule"
    /\ ambiguous_particles[3].particle = 1

(***************************************************************************)
(* C27  No missed local match.  Whenever a crescent is in the ambiguous    *)
(* list, every globule of its 3 x 3 neighbourhood that is within           *)
(* 3 * sqrt(area / pi) of it and has at least 0.25 of its area was Used    *)
(* when the crescent was decided.                                          *)
(***************************************************************************)
C27_AmbiguousCrescents ==
    { ambiguous_particles[a].particle :
        a \in { b \in 1..Len(ambiguous_particles) :
                  ambiguous_particles[b].type = "crescent" } }

C27_NoneMissed ==
    \A k \in C27_AmbiguousCrescents :
        \A g \in 1..Len(globules) :
            (/\ StoredCell(globules[g])[1] \in
                    ((crescents[k].x \div 50) - 1)..((crescents[k].x \div 50) + 1)
             /\ StoredCell(globules[g])[2] \in
                    ((crescents[k].y \div 50) - 1)..((crescents[k].y \div 50) + 1)
             /\ 355 * DistSq(crescents[k], globules[g])
                    <= 9 * crescents[k].area * 113
             /\ 4 * globules[g].area >= crescents[k].area)
                => \E n \in 1..PairCount :
                       /\ linked_particles[n].crescent < k
                       /\ linked_particles[n].globule = g

C27_NoMissedLocalMatch == []C27_NoneMissed

\* The second crescent is ambiguous: the globule it could have had was taken
\* by the first crescent, and the free globule of its own cell, within its
\* radius limit, is below the area floor.
C27_Witness ==
    /\ pc = "globules"
    /\ PairCount = 1
    /\ linked_particles[1].crescent = 1
    /\ 2 \in C27_AmbiguousCrescents
    /\ Eligible(crescents[2], globules[linked_particles[1].globule])
    /\ \E g \in 1..Len(globules) :
           /\ g \notin used_globules
           /\ InSearched(crescents[2], globules[g])
           /\ InRadius(crescents[2], globules[g])
           /\ ~AboveFloor(crescents[2], globules[g])

(***************************************************************************)
(* C28  Prefix stability.  For every k up to the number of crescents, the  *)
(* decisions of a run for its first k crescents (their pairs and their     *)
(* ambiguous entries) are the decisions of link given only those k         *)
(* crescents and the same globules.                                        *)
(***************************************************************************)
C28_Decided == pc = "globules" /\ gi = 1

C28_OfFirst(k) ==
    [linked_particles |->
         SelectSeq(linked_particles, LAMBDA p : p.crescent <= k),
     ambiguous_particles |->
         SelectSeq(ambiguous_particles,
                   LAMBDA a : a.type = "crescent" /\ a.particle <= k)]

C28_OfPrefix(k) ==
    LET alone == LinkAlone(SubSeq(crescents, 1, k), globules,
                           image_width, image_height)
    IN  [linked_particles |-> alone.linked_particles,
         ambiguous_particles |->
             SelectSeq(alone.ambiguous_particles, LAMBDA a : a.type = "crescent")]

C28_PrefixStability ==
    [](C28_Decided =>
           \A k \in 0..Len(crescents) : C28_OfFirst(k) = C28_OfPrefix(k))

\* Two crescents are linked and the second was eligible for the globule of
\* the first: the first crescent's pair is the one it gets when link is
\* given the first crescent only.
C28_Witness ==
    /\ C28_Decided
    /\ Len(crescents) = 2
    /\ PairCount = 2
    /\ Eligible(crescents[2], globules[linked_particles[1].globule])
    /\ Len(C28_OfPrefix(1).linked_particles) = 1
    /\ C28_OfPrefix(1).linked_particles[1] = linked_particles[1]

(***************************************************************************)
(* C29  Query cell is not clamped.  A crescent whose own cell index is     *)
(* more than the search radius outside the grid's index range, on either   *)
(* axis, is returned an empty candidate list by the query and is emitted   *)
(* Ambiguous, whatever globules there are: also when a free globule stored *)
(* in the border cell next to it is within its radius limit and meets the  *)
(* area floor.                                                             *)
(***************************************************************************)
C29_OffGrid(c) ==
    \/ c.x \div 50 < 0 - 1
    \/ c.x \div 50 > (image_width \div 50) + 1
    \/ c.y \div 50 < 0 - 1
    \/ c.y \div 50 > (image_height \div 50) + 1

C29_EmittedAmbiguous(k) ==
    /\ Occurrences(ambiguous_particles,
                   LAMBDA a : a.type = "crescent" /\ a.particle = k) = 1
    /\ \A n \in 1..PairCount : linked_particles[n].crescent # k

C29_OffGridAmbiguous ==
    \A k \in 1..Len(crescents) :
        C29_OffGrid(crescents[k]) =>
            /\ C19_Built =>
                   get_nearby_globules(crescents[k], globules, spatial_map, 1)
                     = <<>>
            /\ (C19_Built /\ ci > k) => C29_EmittedAmbiguous(k)

C29_QueryNotClamped == []C29_OffGridAmbiguous

\* A globule that crescent k could be linked with, were it searched: free at
\* the end of the run, within the radius limit and above the area floor.
C29_CouldHave(k, g) ==
    /\ g \notin used_globules
    /\ InRadius(crescents[k], globules[g])
    /\ AboveFloor(crescents[k], globules[g])

\* A crescent left of the 120 x 60 image and a crescent below it are both
\* ambiguous, each with a free, near and large enough globule in the border
\* cell next to it, and both globules are ambiguous.
C29_Witness ==
    /\ Returned
    /\ image_width = 120
    /\ Len(crescents) = 2
    /\ Len(globules) = 2
    /\ crescents[1].x \div 50 = 0 - 2
    /\ StoredCell(globules[1]) = <<0, 0>>
    /\ C29_CouldHave(1, 1)
    /\ crescents[2].y \div 50 = 3
    /\ StoredCell(globules[2]) = <<0, 1>>
    /\ C29_CouldHave(2, 2)
    /\ C29_EmittedAmbiguous(1)
    /\ C29_EmittedAmbiguous(2)
    /\ Len(ambiguous_particles) = 4

(***************************************************************************)
(* C30  Batch accounting.  A batch that found n >= 1 pairs and returned    *)
(* has a summary with success, n results in pair order, and                *)
(* successful + failed = total_pairs = n, where successful is the number   *)
(* of results whose success flag is true.  A batch that found no pair      *)
(* returns a summary with success false and an error, and has processed    *)
(* nothing.                                                                *)
(***************************************************************************)
C30_Found == IF input_dir_exists THEN Len(image_pairs) ELSE 0

C30_Accounted(summary) ==
    /\ summary.success
    /\ Len(summary.results) = C30_Found
    /\ \A k \in 1..Len(summary.results) : summary.results[k].filename = k
    /\ summary.total_pairs = C30_Found
    /\ summary.successful + summary.failed = summary.total_pairs
    /\ summary.successful
          = Cardinality({ k \in 1..Len(summary.results) :
                            summary.results[k].success })

C30_NothingProcessed(summary) ==
    /\ ~summary.success
    /\ "error" \in DOMAIN summary
    /\ "results" \notin DOMAIN summary
    /\ results = <<>>
    /\ pair_i = 1
    /\ successful_count = 0
    /\ failed_count = 0

C30_BatchAccounting ==
    batch_pc = "returned" =>
        /\ batch_summary # None
        /\ IF C30_Found >= 1
           THEN C30_Accounted(batch_summary[1])
           ELSE C30_NothingProcessed(batch_summary[1])

\* A returned batch of two pairs whose first pair succeeded and whose second
\* failed while saving: one successful, one failed.
C30_Witness ==
    /\ batch_pc = "returned"
    /\ batch_summary # None
    /\ batch_summary[1].success
    /\ batch_summary[1].total_pairs = 2
    /\ batch_summary[1].successful = 1
    /\ batch_summary[1].failed = 1
    /\ batch_summary[1].results[1].success
    /\ batch_summary[1].results[2].error = "save"
====
